---- MODULE Spec2Model ----
(***************************************************************************)
(* EmoHarmony PDF report generator (frontend utils/exportPDF):             *)
(* exportResultAsPDF(result) and its section helpers, as a state machine.  *)
(* One render is a run of the machine: the record is the input chosen in   *)
(* Init, every section renderer is one action, the footer loop is one      *)
(* action per iteration, and the document is the sequence of drawing       *)
(* operations issued to jsPDF.                                             *)
(*                                                                         *)
(* Lengths are integers in units of 1/10000 mm, so that 5.5 mm, 44.5 mm,   *)
(* the 36.4 mm table cell and (pct / 100) * maxW are all exact.            *)
(* Scores and the confidence are integers in permille (0.9 = 900).         *)
(* Band and ratio values are integers in units of 1/10000 (1.23 = 12300).  *)
(* An optional field is <<>> when absent and <<v>> when present.           *)
(***************************************************************************)
EXTENDS Integers, Sequences, FiniteSets, TLC

VARIABLES result, now, pc, docCreated, numPages, curPage, ops, y,
          totalPages, p, saved, filename,
          suspended, finished, started, interrupted

\* the render that is running: the argument and the locals of one call of
\* exportResultAsPDF, the document it builds and its position
render == <<result, now, pc, docCreated, numPages, curPage, ops, y,
            totalPages, p, saved, filename>>

\* the other calls: the one that is suspended, the ones that have ended, the
\* number of calls made and whether the running one has been suspended
others == <<suspended, finished, started, interrupted>>

vars == <<render, others>>

\* ------------------------------------------------------------------ bounds
MaxScores == 3

MaxRatios == 2

LongTextWords == 80

\* --------------------------------------------------------------- geometry
UnitsPerMm == 10000

Mm(n) == n * UnitsPerMm

\* n tenths of a millimetre (5.5 mm is Tenths(55))
Tenths(n) == n * (UnitsPerMm \div 10)

PageWidthMm == 210

PageHeightMm == 297

pageW == Mm(PageWidthMm)

pH == Mm(PageHeightMm)

maxW == pageW - Mm(28)

Min(a, b) == IF a <= b THEN a ELSE b

Max(a, b) == IF a >= b THEN a ELSE b

\* ------------------------------------------------------- optional values
Absent == <<>>

Some(v) == <<v>>

IsPresent(o) == o # <<>>

\* --------------------------------------------------------- colour lookup
Arr(r, g, b) == [isArray |-> TRUE, rgb |-> <<r, g, b>>]

\* what a lookup of an inherited property name yields: a function or
\* object of Object.prototype, truthy and not iterable
InheritedMember == [isArray |-> FALSE, rgb |-> <<>>]

FallbackColor == Arr(99, 102, 241)

EmotionLabels == {"Happy", "Calm", "Stress", "Angry", "Sad"}

EMOTION_COLORS ==
    [k \in EmotionLabels |->
        CASE k = "Happy"  -> Arr(245, 158, 11)
          [] k = "Calm"   -> Arr(16, 185, 129)
          [] k = "Stress" -> Arr(139, 92, 246)
          [] k = "Angry"  -> Arr(239, 68, 68)
          [] k = "Sad"    -> Arr(59, 130, 246)]

bands == <<"delta", "theta", "alpha", "beta", "gamma">>

BandNames == {bands[i] : i \in 1..Len(bands)}

bandColors ==
    [k \in BandNames |->
        CASE k = "delta" -> Arr(59, 130, 246)
          [] k = "theta" -> Arr(139, 92, 246)
          [] k = "alpha" -> Arr(16, 185, 129)
          [] k = "beta"  -> Arr(245, 158, 11)
          [] k = "gamma" -> Arr(239, 68, 68)]

\* property names every object literal inherits from Object.prototype
ObjectPrototypeKeys ==
    {"constructor", "toString", "valueOf", "hasOwnProperty", "__proto__"}

\* table[key] || [99, 102, 241] for an object-literal table: an own key gives
\* its colour, an inherited name gives the (truthy) inherited member, and
\* only an undefined result falls through to the fallback
ColorLookup(table, key) ==
    IF key \in DOMAIN table THEN table[key]
    ELSE IF key \in ObjectPrototypeKeys THEN InheritedMember
    ELSE FallbackColor

\* the property key an optional string is converted to (undefined -> "undefined")
PropertyKey(o) == IF IsPresent(o) THEN o[1] ELSE "undefined"

EmotionColorOf(key) == ColorLookup(EMOTION_COLORS, key)

BandColorOf(key) == ColorLookup(bandColors, key)

\* hex([r, g, b]) and ...color both need an iterable
Iterable(c) == c.isArray

\* ------------------------------------------------------ number formatting
Abs(n) == IF n < 0 THEN 0 - n ELSE n

\* n.toString() for an integer
IntText(n) == IF n < 0 THEN "-" \o ToString(0 - n) ELSE ToString(n)

\* the digits of n, left-padded with zeros to width k
RECURSIVE ZeroPad(_, _)
ZeroPad(n, k) ==
    IF k <= 1 THEN ToString(n)
    ELSE ZeroPad(n \div 10, k - 1) \o ToString(n % 10)

\* pct.toFixed(1) for pct given in tenths of a percent
ToFixed1(t) ==
    (IF t < 0 THEN "-" ELSE "") \o ToString(Abs(t) \div 10) \o "."
        \o ToString(Abs(t) % 10)

\* val.toFixed(4) for val given in units of 1/10000
ToFixed4(v) ==
    (IF v < 0 THEN "-" ELSE "") \o ToString(Abs(v) \div 10000) \o "."
        \o ZeroPad(Abs(v) % 10000, 4)

\* Math.round(c * 100) for c in permille: halves round towards +infinity
RoundPercent(c) == (c + 5) \div 10

\* ------------------------------------------------------------ text layout
\* A text is the sequence of its words, each word given by its rendered
\* width at the active font; the empty text is <<>>.
SpaceWidth == Mm(1)

LineWidth(line) ==
    IF line = <<>> THEN 0
    ELSE LET RECURSIVE Sum(_)
             Sum(i) == IF i = 0 THEN 0 ELSE line[i] + Sum(i - 1)
         IN  Sum(Len(line)) + (Len(line) - 1) * SpaceWidth

\* doc.splitTextToSize(text, maxWidth): words are added to the current line
\* while they fit, a word that does not fit starts the next line; the empty
\* text gives one empty line.  The state of the scan is the lines finished
\* so far and the line being filled.
SplitStepEager(st, word, width) ==
    IF st.cur = <<>> THEN [done |-> st.done, cur |-> <<word>>]
    ELSE [done |-> Append(st.done, st.cur), cur |-> <<word>>]

SplitStep(st, word, width) ==
    IF st.cur = <<>> THEN [done |-> st.done, cur |-> <<word>>]
    ELSE IF LineWidth(Append(st.cur, word)) <= width
         THEN [done |-> st.done, cur |-> Append(st.cur, word)]
         ELSE [done |-> Append(st.done, st.cur), cur |-> <<word>>]

\* the scan over words[lo..hi], left to right, from the state st.  The range
\* is halved, and the left half is evaluated before the right half is
\* entered, only to keep the evaluation of a long text shallow.
RECURSIVE SplitRange(_, _, _, _, _)
SplitRange(words, lo, hi, st, width) ==
    IF lo > hi THEN st
    ELSE IF lo = hi THEN SplitStep(st, words[lo], width)
    ELSE LET mid == (lo + hi) \div 2
             left == SplitRange(words, lo, mid, st, width)
         IN  IF Len(left.done) >= 0
             THEN SplitRange(words, mid + 1, hi, left, width)
             ELSE st

splitTextToSize(text, maxWidth) ==
    LET st == SplitRange(text, 1, Len(text), [done |-> <<>>, cur |-> <<>>], maxWidth)
    IN  Append(st.done, st.cur)

\* ------------------------------------------------------------------ sort
\* the comparator ([, a], [, b]) => b - a
CompareScoresAscending(a, b) == a.score - b.score

CompareScores(a, b) == b.score - a.score

\* Array.prototype.sort is stable: an element is placed after every element
\* already placed that does not compare greater than it
RECURSIVE InsertUnstable(_, _)
InsertUnstable(sorted, e) ==
    IF sorted = <<>> THEN <<e>>
    ELSE LET last == sorted[Len(sorted)]
         IN  IF CompareScores(last, e) >= 0
             THEN Append(InsertUnstable(SubSeq(sorted, 1, Len(sorted) - 1), e), last)
             ELSE Append(sorted, e)

RECURSIVE InsertSorted(_, _)
InsertSorted(sorted, e) ==
    IF sorted = <<>> THEN <<e>>
    ELSE LET last == sorted[Len(sorted)]
         IN  IF CompareScores(last, e) > 0
             THEN Append(InsertSorted(SubSeq(sorted, 1, Len(sorted) - 1), e), last)
             ELSE Append(sorted, e)

RECURSIVE SortFrom(_, _, _)
SortFrom(entries, i, sorted) ==
    IF i > Len(entries) THEN sorted
    ELSE SortFrom(entries, i + 1, InsertSorted(sorted, entries[i]))

SortEntries(entries) == SortFrom(entries, 1, <<>>)

\* Object.entries(o || {}) of an optional map kept as its entry sequence
ObjectEntriesUndefaulted(o) ==
    IF IsPresent(o) THEN o[1] ELSE << [key |-> "undefined", score |-> 0] >>

ObjectEntries(o) == IF IsPresent(o) THEN o[1] ELSE <<>>

\* ------------------------------------------------------ drawing operations
NoColor == <<>>

\* a filled rectangle (rect / roundedRect with style "F")
RectOp(sec, x, yy, w, h, color) ==
    [sec |-> sec, kind |-> "rect", page |-> 0, x |-> x, y |-> yy, w |-> w,
     h |-> h, text |-> "", lines |-> <<>>, color |-> color]

LineOp(sec, x, yy, x2, color) ==
    [sec |-> sec, kind |-> "line", page |-> 0, x |-> x, y |-> yy,
     w |-> x2 - x, h |-> 0, text |-> "", lines |-> <<>>, color |-> color]

TextOp(sec, text, x, yy, color) ==
    [sec |-> sec, kind |-> "text", page |-> 0, x |-> x, y |-> yy, w |-> 0,
     h |-> 0, text |-> text, lines |-> <<>>, color |-> color]

LinesOp(sec, lines, x, yy, color) ==
    [sec |-> sec, kind |-> "lines", page |-> 0, x |-> x, y |-> yy, w |-> 0,
     h |-> 0, text |-> "", lines |-> lines, color |-> color]

OnPage(seq, page) == [i \in 1..Len(seq) |-> [seq[i] EXCEPT !.page = page]]

\* what a helper returns: the operations it issued, the cursor it returns
\* and whether it raised a TypeError on the way
Drawn(seq, yy) == [ops |-> seq, y |-> yy, threw |-> FALSE]

Thrown(seq, yy) == [ops |-> seq, y |-> yy, threw |-> TRUE]

\* ------------------------------------------------------------------ dates
ValidDates == {"2024-01-15T10:30:00.000Z"}

\* formatDate(isoString): new Date(iso).toLocaleString("en-IN", ...)
formatDate(isoString) ==
    IF isoString = "2024-01-15T10:30:00.000Z" THEN "15 January 2024 at 10:30 am"
    ELSE "Invalid Date"

\* new Date().toLocaleString() at instant t
NowLocaleString(t) == "3/11/2026, 12:00:0" \o ToString(t) \o " pm"

\* -------------------------------------------------------- section helpers
White == <<255, 255, 255>>

Disclaimer == "This report is generated for research & educational purposes only and does not constitute medical diagnosis."

HeaderEndY == Mm(58)

addHeader(res, t) ==
    LET color == EmotionColorOf(PropertyKey(res.emotion))
        dateStr == IF IsPresent(res.createdAt) /\ res.createdAt[1] # ""
                   THEN formatDate(res.createdAt[1])
                   ELSE NowLocaleString(t)
    IN  IF ~Iterable(color) THEN Thrown(<<>>, 0)
        ELSE Drawn(
            << RectOp("header", 0, 0, pageW, Mm(38), color.rgb),
               TextOp("header", "EmoHarmony", Mm(14), Mm(18), White),
               TextOp("header", "EEG Emotional Analysis Report", Mm(14), Mm(26), White),
               TextOp("header", dateStr, pageW - Mm(14), Mm(26), White),
               RectOp("header", 0, Mm(38), pageW, Mm(10), <<240, 240, 245>>),
               TextOp("header", Disclaimer, pageW \div 2, Tenths(445), <<100, 100, 120>>) >>,
            HeaderEndY)

TitleColor == <<50, 50, 80>>

addSectionTitleOnRule(sec, title, yy, color) ==
    Drawn(<< LineOp(sec, Mm(14), yy, pageW - Mm(14), color),
             TextOp(sec, title, Mm(14), yy, color) >>,
          yy + Mm(7))

addSectionTitle(sec, title, yy, color) ==
    Drawn(<< LineOp(sec, Mm(14), yy, pageW - Mm(14), color),
             TextOp(sec, title, Mm(14), yy + Mm(5), color) >>,
          yy + Mm(5) + Mm(7))

addKVRowInPlace(sec, label, value, yy) ==
    Drawn(<< TextOp(sec, label, Mm(14), yy, <<100, 100, 120>>),
             TextOp(sec, value, Mm(80), yy, <<30, 30, 50>>) >>,
          yy)

addKVRow(sec, label, value, yy) ==
    Drawn(<< TextOp(sec, label, Mm(14), yy, <<100, 100, 120>>),
             TextOp(sec, value, Mm(80), yy, <<30, 30, 50>>) >>,
          yy + Mm(7))

ToUpperCase(band) ==
    CASE band = "delta" -> "DELTA"
      [] band = "theta" -> "THETA"
      [] band = "alpha" -> "ALPHA"
      [] band = "beta"  -> "BETA"
      [] band = "gamma" -> "GAMMA"

\* a JSON value that is a number (in units of 1/10000) or a string
Num(n) == [isNumber |-> TRUE, n |-> n, s |-> ""]

Str(s) == [isNumber |-> FALSE, n |-> 0, s |-> s]

\* typeof val === "number" ? val.toFixed(4) : String(val)
FixedOrString(val) == IF val.isNumber THEN ToFixed4(val.n) ELSE val.s

\* bandPowers?.[band] ?? 0
BandValueUndefaulted(bandPowers, band) ==
    IF IsPresent(bandPowers) /\ band \in DOMAIN bandPowers[1]
    THEN bandPowers[1][band] ELSE Str("undefined")

BandValue(bandPowers, band) ==
    IF IsPresent(bandPowers) /\ band \in DOMAIN bandPowers[1]
    THEN bandPowers[1][band] ELSE Num(0)

cellW == (pageW - Mm(28)) \div Len(bands)

BandCell(bandPowers, i, yy) ==
    LET band == bands[i]
        x == Mm(14) + (i - 1) * cellW
        color == BandColorOf(band)
        val == BandValue(bandPowers, band)
    IN  << RectOp("bands", x, yy, cellW - Mm(2), Mm(8), color.rgb),
           TextOp("bands", ToUpperCase(band), x + (cellW - Mm(2)) \div 2,
                  yy + Tenths(55), White),
           TextOp("bands", FixedOrString(val), x + (cellW - Mm(2)) \div 2,
                  yy + Mm(16), <<30, 30, 50>>) >>

RECURSIVE BandCells(_, _, _)
BandCells(bandPowers, i, yy) ==
    IF i > Len(bands) THEN <<>>
    ELSE BandCell(bandPowers, i, yy) \o BandCells(bandPowers, i + 1, yy)

\* a table whose height depends on the values: no value row when
\* bandPowers is absent
addBandPowerTableByValues(bandPowers, yy) ==
    Drawn(BandCells(bandPowers, 1, yy),
          yy + (IF IsPresent(bandPowers) THEN Mm(22) ELSE Mm(12)))

addBandPowerTable(bandPowers, yy) ==
    Drawn(BandCells(bandPowers, 1, yy), yy + Mm(22))

\* Math.min(score * 100, 100), in tenths of a percent, for score in permille
PctOfUnclamped(score) == score

PctOf(score) == Min(score, 1000)

\* (pct / 100) * maxW
BarWidth(score, trackW) == (PctOf(score) * trackW) \div 1000

BarX == Mm(55)

addEmotionScoreBar(emotion, score, yy, trackW) ==
    LET color == EmotionColorOf(emotion)
        pct == PctOf(score)
        barW == BarWidth(score, trackW)
        head == << TextOp("scores", emotion, Mm(14), yy + Mm(4), <<60, 60, 80>>),
                   RectOp("scores", BarX, yy, trackW, Mm(5), <<230, 230, 240>>) >>
        pctText == TextOp("scores", ToFixed1(pct) \o "%", pageW - Mm(14),
                          yy + Mm(4), <<30, 30, 50>>)
    IN  IF barW > 0
        THEN IF ~Iterable(color) THEN Thrown(head, yy)
             ELSE Drawn(head \o << RectOp("scores", BarX, yy, barW, Mm(5), color.rgb),
                                   pctText >>,
                        yy + Mm(9))
        ELSE Drawn(Append(head, pctText), yy + Mm(9))

\* the line height exportResultAsPDF passes to wrapText, 5.5
LineHeightUpwards == 0 - Tenths(55)

LineHeight == Tenths(55)

wrapTextOneLineAdvance(sec, text, x, yy, maxWidth, lineHeight) ==
    LET lines == splitTextToSize(text, maxWidth)
    IN  Drawn(<< LinesOp(sec, lines, x, yy, <<40, 40, 60>>) >>, yy + lineHeight)

wrapText(sec, text, x, yy, maxWidth, lineHeight) ==
    LET lines == splitTextToSize(text, maxWidth)
    IN  Drawn(<< LinesOp(sec, lines, x, yy, <<40, 40, 60>>) >>,
              yy + Len(lines) * lineHeight)

\* ---------------------------------------------------------- input records
\* x || d for an optional string: undefined, null and "" are falsy
OrElse(o, d) == IF IsPresent(o) /\ o[1] # "" THEN o[1] ELSE d

ShortText == << Mm(30), Mm(40) >>

TwoLineText == << Mm(100), Mm(70), Mm(90) >>

LongText == [i \in 1..LongTextWords |-> Mm(100)]

\* "No interpretation available."
FallbackText == << Mm(5), Mm(22), Mm(17) >>

ScoreKeys == {"Calm", "Happy", "Sad", "Excited"}

\* scores inside [0, 1] and scores at or beyond its ends, in permille
ScoreValues == {200, 500, 900}

ExtremeScoreValues == {-100, 0, 1000, 1400}

ScoreEntries == [key : ScoreKeys, score : ScoreValues]

AnyScoreEntries == [key : ScoreKeys, score : ScoreValues \cup ExtremeScoreValues]

DistinctKeys(seq) == \A i, j \in 1..Len(seq) : i # j => seq[i].key # seq[j].key

\* the maps of at most MaxScores entries with scores inside [0, 1] and the
\* maps of at most two entries with any score, each as its entries in key
\* order
ScoreMaps ==
    { m \in UNION { [1..k -> ScoreEntries] : k \in 0..MaxScores } : DistinctKeys(m) }
    \cup
    { m \in UNION { [1..k -> AnyScoreEntries] : k \in 1..2 } : DistinctKeys(m) }

RatioKeys == {"alpha_beta_ratio", "fatigue_index", "custom_ratio", "constructor"}

RatioValues == {Num(12300), Str("n/a")}

RatioEntries == [key : RatioKeys, val : RatioValues]

RatioMaps ==
    { m \in UNION { [1..k -> RatioEntries] : k \in 0..MaxRatios } : DistinctKeys(m) }

FullBands == [b \in BandNames |-> Num(12345)]

BandMaps ==
    { FullBands,
      [b \in {"delta", "alpha"} |-> Num(5)],
      [b \in BandNames |-> IF b = "beta" THEN Str("high") ELSE Num(0)] }

EmotionValues ==
    {Absent, Some("")} \cup {Some(e) : e \in EmotionLabels}
        \cup {Some("Excited"), Some("constructor"), Some("toString")}

BaseRecord ==
    [ _id |-> Some("65a1f0"), datasetName |-> Some("DEAP"),
      modelUsed |-> Some("CNN"), processingTime |-> Some(120),
      createdAt |-> Some("2024-01-15T10:30:00.000Z"),
      emotion |-> Some("Happy"), confidence |-> Some(870),
      bandPowers |-> Some(FullBands),
      emotionScores |-> Some(<< [key |-> "Calm", score |-> 200],
                                [key |-> "Happy", score |-> 900],
                                [key |-> "Sad", score |-> 500] >>),
      interpretation |-> Some(ShortText),
      ratios |-> Some(<< [key |-> "alpha_beta_ratio", val |-> Num(12300)] >>) ]

EmotionRecords ==
    { [BaseRecord EXCEPT !.emotion = e, !.createdAt = c] :
        e \in EmotionValues,
        c \in {Absent, Some("2024-01-15T10:30:00.000Z"), Some("yesterday")} }

ScoreRecords ==
    { [BaseRecord EXCEPT !.emotionScores = m] :
        m \in {Absent} \cup {Some(x) : x \in ScoreMaps} }
    \cup { [BaseRecord EXCEPT !.emotionScores =
                Some(<< [key |-> "Happy", score |-> 900],
                        [key |-> "constructor", score |-> sc] >>)] :
            sc \in {-100, 500} }

TextRecords ==
    { [BaseRecord EXCEPT !.interpretation = t, !.ratios = r] :
        t \in {Absent, Some(<<>>), Some(ShortText), Some(TwoLineText), Some(LongText)},
        r \in {Absent} \cup {Some(x) : x \in RatioMaps} }

SessionRecords ==
    { [BaseRecord EXCEPT !._id = i, !.datasetName = d, !.modelUsed = m,
                         !.processingTime = t] :
        i \in {Absent, Some("65a1f0")}, d \in {Absent, Some("DEAP")},
        m \in {Absent, Some("CNN")}, t \in {Absent, Some(0), Some(120)} }

BandRecords ==
    { [BaseRecord EXCEPT !.bandPowers = b, !.confidence = c] :
        b \in {Absent} \cup {Some(x) : x \in BandMaps},
        c \in {Absent, Some(0), Some(875), Some(1200)} }

\* a full report: the five emotion scores of the schema, an interpretation
\* of one line and the three ratios of the label dictionary
FullReport ==
    [BaseRecord EXCEPT
        !.emotionScores = Some(<< [key |-> "Happy", score |-> 500],
                                  [key |-> "Sad", score |-> 200],
                                  [key |-> "Angry", score |-> 100],
                                  [key |-> "Calm", score |-> 150],
                                  [key |-> "Stress", score |-> 50] >>),
        !.ratios = Some(<< [key |-> "alpha_beta_ratio", val |-> Num(12300)],
                           [key |-> "theta_alpha_ratio", val |-> Num(8000)],
                           [key |-> "fatigue_index", val |-> Num(15000)] >>)]

Records ==
    EmotionRecords \cup ScoreRecords \cup TextRecords \cup SessionRecords
        \cup BandRecords \cup {FullReport}

\* the instants new Date() / Date.now() can return during a render
MaxInstant == 2

Instants == 1..MaxInstant

\* ------------------------------------------------------- exportResultAsPDF
RatioLabelKeys == {"alpha_beta_ratio", "theta_alpha_ratio", "fatigue_index"}

ratioLabels ==
    [k \in RatioLabelKeys |->
        CASE k = "alpha_beta_ratio"  -> "Alpha/Beta Ratio (Relaxation Index)"
          [] k = "theta_alpha_ratio" -> "Theta/Alpha Ratio (Mental Load Index)"
          [] k = "fatigue_index"     -> "Fatigue Index ((a+t)/b)"]

\* ratioLabels[key] || key
RatioLabel(key) ==
    IF key \in DOMAIN ratioLabels THEN ratioLabels[key]
    ELSE IF key \in ObjectPrototypeKeys THEN "function () { [native code] }"
    ELSE key

Rec == result[1]

\* !result: the argument is null or undefined
NotResultNever(res) == FALSE

NotResult(res) == res = <<>>

\* the order of the statements of exportResultAsPDF: the step that runs
\* after each step
SectionAfterSwapped(step) ==
    CASE step = "header"    -> "session"
      [] step = "session"   -> "primary"
      [] step = "primary"   -> "scores"
      [] step = "scores"    -> "bands"
      [] step = "bands"     -> "interp"
      [] step = "interp"    -> "ratios"
      [] step = "ratios"    -> "pagecount"
      [] step = "pagecount" -> "footer"
      [] step = "footer"    -> "save"
      [] step = "save"      -> "done"

SectionAfter(step) ==
    CASE step = "header"    -> "session"
      [] step = "session"   -> "primary"
      [] step = "primary"   -> "bands"
      [] step = "bands"     -> "scores"
      [] step = "scores"    -> "interp"
      [] step = "interp"    -> "ratios"
      [] step = "ratios"    -> "pagecount"
      [] step = "pagecount" -> "footer"
      [] step = "footer"    -> "save"
      [] step = "save"      -> "done"

emotionColor == EmotionColorOf(PropertyKey(Rec.emotion))

\* the width of the probability-bar track, maxW - 40
TrackWidth == maxW - Mm(40)

Emit(r) == ops' = ops \o OnPage(r.ops, curPage)

Init ==
    /\ result \in {<<>>} \cup {<<r>> : r \in Records}
    /\ now = 0
    /\ pc = "start"
    /\ docCreated = FALSE
    /\ numPages = 0
    /\ curPage = 0
    /\ ops = <<>>
    /\ y = 0
    /\ totalPages = 0
    /\ p = 0
    /\ saved = 0
    /\ filename = ""
    /\ suspended = <<>>
    /\ finished = {}
    /\ started = 1
    /\ interrupted = FALSE

\* if (!result) return;
ReturnOnNull ==
    /\ pc = "start"
    /\ NotResult(result)
    /\ pc' = "returned"
    /\ UNCHANGED <<others, result, now, docCreated, numPages, curPage, ops, y,
                   totalPages, p, saved, filename>>

\* new jsPDF({...}): a document with one page, which is the current page
CreateDoc ==
    /\ pc = "start"
    /\ ~NotResult(result)
    /\ docCreated' = TRUE
    /\ numPages' = 1
    /\ curPage' = 1
    /\ pc' = "header"
    /\ UNCHANGED <<others, result, now, ops, y, totalPages, p, saved, filename>>

\* a section that drew r and hands the cursor r.y to the section `next`
Drew(r, next) ==
    /\ ~r.threw
    /\ Emit(r)
    /\ y' = r.y
    /\ pc' = next
    /\ UNCHANGED <<others, result, docCreated, numPages, curPage, totalPages, p,
                   saved, filename>>

Section(r, next) == Drew(r, next) /\ UNCHANGED now

\* a section that raised after drawing r.ops: the exception leaves
\* exportResultAsPDF, nothing after it runs
Raise(r) ==
    /\ r.threw
    /\ Emit(r)
    /\ pc' = "threw"
    /\ UNCHANGED <<others, result, now, docCreated, numPages, curPage, y, totalPages,
                   p, saved, filename>>

\* result.createdAt is truthy
HasCreatedAt(res) == IsPresent(res.createdAt) /\ res.createdAt[1] # ""

\* the header reads the clock (new Date()) only when createdAt is falsy
Header ==
    /\ pc = "header"
    /\ \E t \in Instants :
          /\ now' = IF HasCreatedAt(Rec) THEN now ELSE t
          /\ Drew(addHeader(Rec, now'), SectionAfter("header"))

HeaderThrows ==
    /\ pc = "header"
    /\ Raise(addHeader(Rec, now))

\* the placeholder of the processing time, an em dash
EmDash == "-"

\* `${result.processingTime ?? "—"} ms`: only null and undefined give the
\* placeholder, 0 is written as a number
ProcessingTimeTextFalsy(t) ==
    (IF IsPresent(t) /\ t[1] # 0 THEN IntText(t[1]) ELSE EmDash) \o " ms"

ProcessingTimeText(t) ==
    (IF IsPresent(t) THEN IntText(t[1]) ELSE EmDash) \o " ms"

SessionInfoOps ==
    LET t  == addSectionTitle("session", "Session Information", y, TitleColor)
        r1 == addKVRow("session", "Report ID:", OrElse(Rec._id, "N/A"), t.y)
        r2 == addKVRow("session", "Dataset Name:",
                       OrElse(Rec.datasetName, "Unknown"), r1.y)
        r3 == addKVRow("session", "Model Used:", OrElse(Rec.modelUsed, "N/A"), r2.y)
        r4 == addKVRow("session", "Processing Time:",
                       ProcessingTimeText(Rec.processingTime), r3.y)
        r5 == addKVRow("session", "Analysis Date:",
                       IF IsPresent(Rec.createdAt) /\ Rec.createdAt[1] # ""
                       THEN formatDate(Rec.createdAt[1]) ELSE "N/A",
                       r4.y)
    IN  Drawn(t.ops \o r1.ops \o r2.ops \o r3.ops \o r4.ops \o r5.ops,
              r5.y + Mm(4))

SessionInfo ==
    /\ pc = "session"
    /\ Section(SessionInfoOps, SectionAfter("session"))

\* result.emotion || "Unknown"
BadgeLabelKnownOnly(emotion) ==
    IF IsPresent(emotion) /\ emotion[1] \in EmotionLabels THEN emotion[1]
    ELSE "Unknown"

BadgeLabel(emotion) == OrElse(emotion, "Unknown")

\* result.confidence ?? 0
ConfidenceUndefaulted(c) == c

ConfidenceOrZero(c) == IF IsPresent(c) THEN c ELSE Some(0)

\* `${Math.round(c * 100)}` for c a number in permille or undefined:
\* undefined * 100 is NaN, and so is its rounding
RoundedPercentText(c) ==
    IF IsPresent(c) THEN IntText(RoundPercent(c[1])) ELSE "NaN"

PrimaryEmotionOps ==
    LET t == addSectionTitle("primary", "Primary Emotion Detected", y, TitleColor)
        confPct == RoundedPercentText(ConfidenceOrZero(Rec.confidence))
    IN  IF ~Iterable(emotionColor) THEN Thrown(t.ops, t.y)
        ELSE Drawn(
            t.ops \o
            << RectOp("primary", Mm(14), t.y, Mm(60), Mm(18), emotionColor.rgb),
               TextOp("primary", BadgeLabel(Rec.emotion), Mm(44), t.y + Mm(12), White),
               TextOp("primary", "Confidence:", Mm(82), t.y + Mm(7), <<60, 60, 80>>),
               TextOp("primary", confPct \o "%", Mm(82), t.y + Mm(16),
                      emotionColor.rgb) >>,
            t.y + Mm(26))

\* the spread ...emotionColor cannot raise here: the header has already
\* raised on the same colour
PrimaryEmotion ==
    /\ pc = "primary"
    /\ Section(PrimaryEmotionOps, SectionAfter("primary"))

BandPowersOps ==
    LET t == addSectionTitle("bands", "EEG Band Powers (uV2/Hz)", y, TitleColor)
        b == addBandPowerTable(Rec.bandPowers, t.y)
    IN  Drawn(t.ops \o b.ops, b.y + Mm(4))

BandPowers ==
    /\ pc = "bands"
    /\ Section(BandPowersOps, SectionAfter("bands"))

\* the forEach over the sorted entries: each bar continues from the cursor
\* the previous one returned; an exception ends the loop
RECURSIVE ScoreBars(_, _, _, _)
ScoreBars(sorted, i, acc, yy) ==
    IF i > Len(sorted) THEN Drawn(acc, yy)
    ELSE LET r == addEmotionScoreBar(sorted[i].key, sorted[i].score, yy, TrackWidth)
         IN  IF r.threw THEN Thrown(acc \o r.ops, yy)
             ELSE ScoreBars(sorted, i + 1, acc \o r.ops, r.y)

ScoresOps ==
    LET t == addSectionTitle("scores", "Emotion Probability Scores", y, TitleColor)
        scores == ObjectEntries(Rec.emotionScores)
        r == ScoreBars(SortEntries(scores), 1, t.ops, t.y)
    IN  IF r.threw THEN r ELSE Drawn(r.ops, r.y + Mm(6))

ScoresSortedInPlace ==
    /\ pc = "scores"
    /\ ~ScoresOps.threw
    /\ Emit(ScoresOps)
    /\ y' = ScoresOps.y
    /\ pc' = SectionAfter("scores")
    /\ result' = << [Rec EXCEPT !.emotionScores =
                        IF IsPresent(@) THEN Some(SortEntries(@[1])) ELSE @] >>
    /\ UNCHANGED <<others, now, docCreated, numPages, curPage, totalPages, p,
                   saved, filename>>

Scores ==
    /\ pc = "scores"
    /\ Section(ScoresOps, SectionAfter("scores"))

ScoresThrow ==
    /\ pc = "scores"
    /\ Raise(ScoresOps)

InterpretationOps ==
    LET t == addSectionTitle("interp", "Clinical Interpretation", y, TitleColor)
        interp == IF IsPresent(Rec.interpretation) /\ Rec.interpretation[1] # <<>>
                  THEN Rec.interpretation[1] ELSE FallbackText
        w == wrapText("interp", interp, Mm(14), t.y, maxW, LineHeight)
    IN  Drawn(t.ops \o w.ops, w.y + Mm(8))

Interpretation ==
    /\ pc = "interp"
    /\ Section(InterpretationOps, SectionAfter("interp"))

RECURSIVE RatioRows(_, _, _, _)
RatioRows(entries, i, acc, yy) ==
    IF i > Len(entries) THEN Drawn(acc, yy)
    ELSE LET r == addKVRow("ratios", RatioLabel(entries[i].key) \o ":",
                           FixedOrString(entries[i].val), yy)
         IN  RatioRows(entries, i + 1, acc \o r.ops, r.y)

RatiosOps ==
    LET t == addSectionTitle("ratios", "Neurological Ratios", y, TitleColor)
        r == RatioRows(ObjectEntries(Rec.ratios), 1, t.ops, t.y)
    IN  Drawn(r.ops, r.y + Mm(4))

\* result.ratios && Object.keys(result.ratios).length > 0
HasRatiosWhenPresent == IsPresent(Rec.ratios)

HasRatios == IsPresent(Rec.ratios) /\ Len(Rec.ratios[1]) > 0

Ratios ==
    /\ pc = "ratios"
    /\ HasRatios
    /\ Section(RatiosOps, SectionAfter("ratios"))

SkipRatios ==
    /\ pc = "ratios"
    /\ ~HasRatios
    /\ pc' = SectionAfter("ratios")
    /\ UNCHANGED <<others, result, now, docCreated, numPages, curPage, ops, y,
                   totalPages, p, saved, filename>>

\* const totalPages = doc.internal.getNumberOfPages(); p = 1
CountPagesFromCursor ==
    /\ pc = "pagecount"
    /\ totalPages' = Max(1, (y + pH - 1) \div pH)
    /\ p' = 1
    /\ pc' = SectionAfter("pagecount")
    /\ UNCHANGED <<others, result, now, docCreated, numPages, curPage, ops, y, saved,
                   filename>>

CountPages ==
    /\ pc = "pagecount"
    /\ totalPages' = numPages
    /\ p' = 1
    /\ pc' = SectionAfter("pagecount")
    /\ UNCHANGED <<others, result, now, docCreated, numPages, curPage, ops, y, saved,
                   filename>>

Attribution == "Generated by EmoHarmony - EEG Emotional Analysis Platform"

PageLabel(i, n) == "Page " \o IntText(i) \o " of " \o IntText(n)

FooterOps(i, n) ==
    << RectOp("footer", 0, pH - Mm(12), pageW, Mm(12), <<245, 245, 250>>),
       TextOp("footer", Attribution, Mm(14), pH - Tenths(45), <<130, 130, 150>>),
       TextOp("footer", PageLabel(i, n), pageW - Mm(14), pH - Tenths(45),
              <<130, 130, 150>>) >>

\* the loop test p <= totalPages
FooterContinuesStrict == p < totalPages

FooterContinues == p <= totalPages

\* one iteration of the footer loop: setPage(p), the strip and the two texts
FooterPage ==
    /\ pc = "footer"
    /\ FooterContinues
    /\ curPage' = p
    /\ ops' = ops \o OnPage(FooterOps(p, totalPages), p)
    /\ p' = p + 1
    /\ UNCHANGED <<others, result, now, pc, docCreated, numPages, y, totalPages, saved,
                   filename>>

FooterDone ==
    /\ pc = "footer"
    /\ ~FooterContinues
    /\ pc' = SectionAfter("footer")
    /\ UNCHANGED <<others, result, now, docCreated, numPages, curPage, ops, y,
                   totalPages, p, saved, filename>>

\* `EmoHarmony_Report_${result.emotion || "EEG"}_${Date.now()}.pdf`
FileName(emotion, t) ==
    "EmoHarmony_Report_" \o OrElse(emotion, "EEG") \o "_" \o IntText(t) \o ".pdf"

\* doc.save(filename); Date.now() is no earlier than the header's new Date()
Save ==
    /\ pc = "save"
    /\ \E t \in Instants :
          /\ t >= now
          /\ filename' = FileName(Rec.emotion, t)
    /\ saved' = saved + 1
    /\ pc' = SectionAfter("save")
    /\ UNCHANGED <<others, result, now, docCreated, numPages, curPage, ops, y,
                   totalPages, p>>

Next ==
    \/ ReturnOnNull
    \/ CreateDoc
    \/ Header
    \/ HeaderThrows
    \/ SessionInfo
    \/ PrimaryEmotion
    \/ BandPowers
    \/ Scores
    \/ ScoresThrow
    \/ Interpretation
    \/ Ratios
    \/ SkipRatios
    \/ CountPages
    \/ FooterPage
    \/ FooterDone
    \/ Save

Spec == Init /\ [][Next]_vars

\* ------------------------------------------------------- several renders
\* Calls of exportResultAsPDF share nothing but the module's tables: every
\* call has its own argument, its own document and its own locals.  Several
\* calls are modelled by one running render and one suspended render whose
\* state is set aside; a switch suspends the one and resumes the other at
\* any point, and a render that has ended is kept with its document.
MaxRenders == 3

\* the arguments of the calls: no record, the base record, a record without
\* createdAt and ratios, and records on which the header or a bar raises
PairInputs ==
    { <<>>,
      <<BaseRecord>>,
      <<[BaseRecord EXCEPT !.createdAt = Absent, !.ratios = Absent,
                           !.emotionScores = Absent]>>,
      <<[BaseRecord EXCEPT !.emotion = Some("constructor")]>>,
      <<[BaseRecord EXCEPT !.emotionScores =
             Some(<< [key |-> "Happy", score |-> 900],
                     [key |-> "constructor", score |-> 500] >>)]>> }

\* the call has returned or raised
Ended(step) == step \in {"returned", "done", "threw"}

\* the state one call owns
OwnState ==
    [result |-> result, now |-> now, pc |-> pc, docCreated |-> docCreated,
     numPages |-> numPages, curPage |-> curPage, ops |-> ops, y |-> y,
     totalPages |-> totalPages, p |-> p, saved |-> saved,
     filename |-> filename, interrupted |-> interrupted]

\* the state of the running call when it is set aside: it has been
\* interrupted if it had begun
SetAside == [OwnState EXCEPT !.interrupted = interrupted \/ pc # "start"]

\* let y = ...: the cursor is a local of the call, a resumed call continues
\* from its own
CursorShared(s) == y

CursorOf(s) == s.y

Resume(s) ==
    /\ result' = s.result
    /\ now' = s.now
    /\ pc' = s.pc
    /\ docCreated' = s.docCreated
    /\ numPages' = s.numPages
    /\ curPage' = s.curPage
    /\ ops' = s.ops
    /\ y' = CursorOf(s)
    /\ totalPages' = s.totalPages
    /\ p' = s.p
    /\ saved' = s.saved
    /\ filename' = s.filename
    /\ interrupted' = s.interrupted

\* a call as it is entered
Entered(res) ==
    [result |-> res, now |-> 0, pc |-> "start", docCreated |-> FALSE,
     numPages |-> 0, curPage |-> 0, ops |-> <<>>, y |-> 0, totalPages |-> 0,
     p |-> 0, saved |-> 0, filename |-> "", interrupted |-> FALSE]

\* what is kept of a call that has ended: its argument, the reading of the
\* clock its header took, its document and how it ended
Kept == [result |-> result, now |-> now, pc |-> pc, ops |-> ops]

\* another call of exportResultAsPDF is made: after the running one has
\* ended, or while it is under way and is set aside
StartAnother ==
    /\ started < MaxRenders
    /\ started' = started + 1
    /\ \/ /\ Ended(pc)
          /\ finished' = finished \cup {Kept}
          /\ suspended' = suspended
       \/ /\ ~Ended(pc)
          /\ suspended = <<>>
          /\ suspended' = <<SetAside>>
          /\ finished' = finished
    /\ \E res \in PairInputs : Resume(Entered(res))

\* the suspended call continues: the running one is set aside, or kept if
\* it has ended
Switch ==
    /\ suspended # <<>>
    /\ \/ /\ Ended(pc)
          /\ finished' = finished \cup {Kept}
          /\ suspended' = <<>>
       \/ /\ ~Ended(pc)
          /\ finished' = finished
          /\ suspended' = <<SetAside>>
    /\ Resume(suspended[1])
    /\ UNCHANGED started

InitPair ==
    /\ result \in PairInputs
    /\ now = 0
    /\ pc = "start"
    /\ docCreated = FALSE
    /\ numPages = 0
    /\ curPage = 0
    /\ ops = <<>>
    /\ y = 0
    /\ totalPages = 0
    /\ p = 0
    /\ saved = 0
    /\ filename = ""
    /\ suspended = <<>>
    /\ finished = {}
    /\ started = 1
    /\ interrupted = FALSE

NextPair ==
    \/ Next
    \/ StartAnother
    \/ Switch

SpecPair == InitPair /\ [][NextPair]_vars

\* ================================================================ claims
\* ---------------------------------------------------- reading the document
OpsOf(sec) == SelectSeq(ops, LAMBDA o : o.sec = sec)

\* the steps that run once the probability section has returned
AfterScores == {"interp", "ratios", "pagecount", "footer", "save", "done"}

\* The rows of the probability-bar list as drawn, in drawing order: after
\* the two operations of the section title each row is a label, a track, a
\* filled bar when one was drawn, and the percentage text.  A row cut short
\* by an exception is not a row.
RECURSIVE RowsFrom(_, _)
RowsFrom(seq, i) ==
    IF i + 2 > Len(seq) THEN <<>>
    ELSE LET hasFill == seq[i + 2].kind = "rect"
             last == IF hasFill THEN i + 3 ELSE i + 2
         IN  IF last > Len(seq) THEN <<>>
             ELSE << [key |-> seq[i].text, y |-> seq[i + 1].y,
                      track |-> seq[i + 1].w,
                      fill |-> IF hasFill THEN seq[i + 2].w ELSE 0,
                      fillColor |-> IF hasFill THEN seq[i + 2].color ELSE NoColor,
                      pctText |-> seq[last].text] >>
                  \o RowsFrom(seq, last + 1)

DrawnRows == RowsFrom(OpsOf("scores"), 3)

InputEntries == ObjectEntries(Rec.emotionScores)

\* the position of a key in the input map's key order (0 when not a key)
KeyIndex(key) ==
    IF \E i \in 1..Len(InputEntries) : InputEntries[i].key = key
    THEN CHOOSE i \in 1..Len(InputEntries) : InputEntries[i].key = key
    ELSE 0

ScoreOfKey(key) == InputEntries[KeyIndex(key)].score

RowKeys == {DrawnRows[i].key : i \in 1..Len(DrawnRows)}

\* C1: a render of a null or absent record returns without raising, creates
\* no document, draws nothing and never reaches the save step.
C1_NullRecordIsNoOp ==
    result = <<>> =>
        /\ pc \in {"start", "returned"}
        /\ ~docCreated
        /\ numPages = 0
        /\ ops = <<>>
        /\ saved = 0
        /\ filename = ""

C1_Witness == result = <<>> /\ pc = "returned"

\* C2: the probability-bar rows are drawn in non-increasing order of score,
\* and once the section has returned the rows are a permutation of the
\* entries of emotionScores.
C2_RowsSortedDescending ==
    result # <<>> =>
        /\ \A i \in 1..Len(DrawnRows) : KeyIndex(DrawnRows[i].key) # 0
        /\ \A i \in 1..(Len(DrawnRows) - 1) :
              ScoreOfKey(DrawnRows[i].key) >= ScoreOfKey(DrawnRows[i + 1].key)
        /\ \A i, j \in 1..Len(DrawnRows) :
              i # j => DrawnRows[i].key # DrawnRows[j].key
        /\ pc \in AfterScores =>
              /\ Len(DrawnRows) = Len(InputEntries)
              /\ RowKeys = {InputEntries[i].key : i \in 1..Len(InputEntries)}

\* the example of the specification: {Calm: 0.2, Happy: 0.9, Sad: 0.5}
\* has been drawn as Happy, Sad, Calm
C2_Witness ==
    /\ result # <<>>
    /\ pc \in AfterScores
    /\ InputEntries = << [key |-> "Calm", score |-> 200],
                         [key |-> "Happy", score |-> 900],
                         [key |-> "Sad", score |-> 500] >>
    /\ Len(DrawnRows) = 3
    /\ DrawnRows[1].key = "Happy"
    /\ DrawnRows[2].key = "Sad"
    /\ DrawnRows[3].key = "Calm"

\* C3: rows whose scores are equal are drawn in the key order of the input
\* map.
C3_TiesKeepKeyOrder ==
    result # <<>> =>
        \A i, j \in 1..Len(DrawnRows) :
            (i < j /\ ScoreOfKey(DrawnRows[i].key) = ScoreOfKey(DrawnRows[j].key))
                => KeyIndex(DrawnRows[i].key) < KeyIndex(DrawnRows[j].key)

\* three rows have been drawn, two of them with equal scores and the
\* third, with a different score, between them in the input
C3_Witness ==
    /\ result # <<>>
    /\ pc \in AfterScores
    /\ Len(InputEntries) = 3
    /\ Len(DrawnRows) = 3
    /\ InputEntries[1].score = InputEntries[3].score
    /\ InputEntries[2].score > InputEntries[1].score
    /\ DrawnRows[2].key = InputEntries[1].key
    /\ DrawnRows[3].key = InputEntries[3].key

\* clamp(score, 0, 1) in permille
Clamp01(score) == Max(0, Min(score, 1000))

\* C4: the filled bar of every row has width clamp(score, 0, 1) x trackWidth
\* (no filled bar is a bar of zero width), which lies in 0..trackWidth, and
\* the track has the fixed track width.
C4_BarWidthClamped ==
    result # <<>> =>
        \A i \in 1..Len(DrawnRows) :
            LET row == DrawnRows[i]
            IN  /\ row.track = TrackWidth
                /\ row.fill * 1000 = Clamp01(ScoreOfKey(row.key)) * TrackWidth
                /\ 0 <= row.fill
                /\ row.fill <= row.track

\* a row for a score of 1.4 with the full track filled next to a row for a
\* score of -0.1 with no filled bar
C4_Witness ==
    /\ result # <<>>
    /\ pc \in AfterScores
    /\ \E i, j \in 1..Len(DrawnRows) :
          /\ ScoreOfKey(DrawnRows[i].key) = 1400
          /\ DrawnRows[i].fill = TrackWidth
          /\ ScoreOfKey(DrawnRows[j].key) = -100
          /\ DrawnRows[j].fill = 0

FooterStamps == OpsOf("footer")

\* the footer of page k as the claim describes it, for a document of n pages
IsFooterOf(f, k, n) ==
    /\ f[3 * k - 2].kind = "rect"
    /\ f[3 * k - 2].page = k
    /\ f[3 * k - 2].y = pH - Mm(12)
    /\ f[3 * k - 2].h = Mm(12)
    /\ f[3 * k - 2].w = pageW
    /\ f[3 * k - 1].kind = "text"
    /\ f[3 * k - 1].page = k
    /\ f[3 * k - 1].text = Attribution
    /\ f[3 * k].kind = "text"
    /\ f[3 * k].page = k
    /\ f[3 * k].text = "Page " \o ToString(k) \o " of " \o ToString(n)

\* C5: the footer pass stamps the pages 1..N in increasing order, each
\* exactly once with a strip, the attribution and "Page i of N", where N is
\* the page count at the end of the layout pass; it ends after N iterations.
C5_FooterStampsEveryPageOnce ==
    result # <<>> =>
        /\ pc \notin {"footer", "save", "done"} => FooterStamps = <<>>
        /\ pc \in {"footer", "save", "done"} =>
              /\ totalPages = numPages
              /\ p \in 1..(numPages + 1)
              /\ Len(FooterStamps) = 3 * (p - 1)
              /\ \A k \in 1..(p - 1) : IsFooterOf(FooterStamps, k, numPages)
        /\ pc \in {"save", "done"} => p = numPages + 1

C5_Witness ==
    /\ result # <<>>
    /\ pc = "done"
    /\ numPages >= 1
    /\ Len(FooterStamps) = 3 * numPages
    /\ FooterStamps[3].text = "Page 1 of 1"

\* the labels of the footer stamps, in drawing order
FooterLabels == [k \in 1..(Len(FooterStamps) \div 3) |-> FooterStamps[3 * k].text]

\* C6: a render whose content is taller than two pages (and fits three)
\* ends with a document of 3 pages stamped "Page 1 of 3", "Page 2 of 3",
\* "Page 3 of 3".
C6_ThreePagesForTallContent ==
    (pc = "done" /\ y > 2 * pH /\ y <= 3 * pH) =>
        /\ numPages = 3
        /\ FooterLabels = << "Page 1 of 3", "Page 2 of 3", "Page 3 of 3" >>

SectionOrder ==
    << "header", "session", "primary", "bands", "scores", "interp", "ratios",
       "footer" >>

SectionIndex(sec) == CHOOSE i \in 1..Len(SectionOrder) : SectionOrder[i] = sec

SectionsDrawn == {ops[i].sec : i \in 1..Len(ops)}

\* how many times a section has been opened: its rules for a titled
\* section, its banners for the header
TimesOpened(sec) ==
    IF sec = "header"
    THEN Len(SelectSeq(ops, LAMBDA o : o.sec = sec /\ o.kind = "rect" /\ o.y = 0))
    ELSE Len(SelectSeq(ops, LAMBDA o : o.sec = sec /\ o.kind = "line"))

\* C7: the sections are drawn in the fixed order header, session info,
\* primary emotion, band powers, probability scores, interpretation, ratios,
\* footer pass: the operations of a section never precede those of an
\* earlier one, no section is opened twice, and a render that reaches the
\* save step has drawn every section except possibly the ratios.
C7_SectionOrderFixed ==
    result # <<>> =>
        /\ \A i \in 1..(Len(ops) - 1) :
              SectionIndex(ops[i].sec) <= SectionIndex(ops[i + 1].sec)
        /\ \A sec \in SectionsDrawn \ {"footer"} : TimesOpened(sec) = 1
        /\ pc \in {"save", "done"} =>
              SectionsDrawn \cup {"ratios"} =
                  {SectionOrder[i] : i \in 1..Len(SectionOrder)}

\* a finished render without the ratios section
C7_Witness ==
    /\ result # <<>>
    /\ pc = "done"
    /\ Cardinality(SectionsDrawn) = 7
    /\ "ratios" \notin SectionsDrawn

\* C8: the colour lookup returns the table colour for each of the five
\* emotion labels and the five band names, pairwise distinct within a
\* category, and the fallback colour for every other string key.
C8_ColorLookupTotal ==
    /\ \A a, b \in EmotionLabels : a # b => EmotionColorOf(a) # EmotionColorOf(b)
    /\ \A a, b \in BandNames : a # b => BandColorOf(a) # BandColorOf(b)
    /\ \A b \in BandNames : BandColorOf(b) = bandColors[b]
    /\ (result # <<>> /\ pc = "header") =>
          LET key == PropertyKey(Rec.emotion)
          IN  EmotionColorOf(key) =
                  IF key \in EmotionLabels THEN EMOTION_COLORS[key]
                  ELSE FallbackColor

\* C9: no section renderer raises, whatever the optional fields of a
\* present record are.
C9_NoRendererThrows == result # <<>> => pc # "threw"

Banners == SelectSeq(ops, LAMBDA o : o.sec = "header" /\ o.kind = "rect" /\ o.y = 0)

BadgeBoxes == SelectSeq(ops, LAMBDA o : o.sec = "primary" /\ o.kind = "rect")

BadgeTexts ==
    SelectSeq(ops, LAMBDA o : o.sec = "primary" /\ o.kind = "text" /\ o.x = Mm(44))

AllHaveColor(seq, rgb) == \A i \in 1..Len(seq) : seq[i].color = rgb

EmotionUnrecognised ==
    result # <<>> /\ (IsPresent(Rec.emotion) => Rec.emotion[1] \notin EmotionLabels)

AfterBands == {"scores"} \cup AfterScores

BandOps == OpsOf("bands")

\* The cells of the band-power table as drawn, in drawing order: after the
\* two operations of the section title each cell is a chip, its label and
\* its value.
BandCellsDrawn ==
    [i \in 1..((Len(BandOps) - 2) \div 3) |->
        [x |-> BandOps[3 * i].x, chip |-> BandOps[3 * i].kind,
         label |-> BandOps[3 * i + 1].text, value |-> BandOps[3 * i + 2].text]]

Digit(n) == ToString(n % 10)

\* a number given in units of 1/10000, written with four decimal places
FourDecimals(v) ==
    (IF v < 0 THEN "-" ELSE "") \o ToString(Abs(v) \div 10000) \o "."
        \o Digit(Abs(v) \div 1000) \o Digit(Abs(v) \div 100)
        \o Digit(Abs(v) \div 10) \o Digit(Abs(v))

BandIsMissing(band) ==
    ~IsPresent(Rec.bandPowers) \/ band \notin DOMAIN Rec.bandPowers[1]

\* C11: the band-power table always has exactly the five cells delta,
\* theta, alpha, beta, gamma, left to right in that order; the value of a
\* band that is missing (bandPowers absent, or without that band) is shown
\* as "0.0000", and every numeric band value is shown with exactly four
\* decimal places.
C11_FiveBandsMissingAsZero ==
    result # <<>> =>
        /\ pc \in AfterBands => Len(BandCellsDrawn) = 5
        /\ BandOps # <<>> =>
              /\ Len(BandOps) = 2 + 3 * 5
              /\ [i \in 1..5 |-> BandCellsDrawn[i].label] =
                     << "DELTA", "THETA", "ALPHA", "BETA", "GAMMA" >>
              /\ \A i \in 1..5 : BandCellsDrawn[i].chip = "rect"
              /\ \A i \in 1..4 : BandCellsDrawn[i].x < BandCellsDrawn[i + 1].x
              /\ \A i \in 1..5 :
                    LET band == bands[i]
                    IN  /\ BandIsMissing(band) => BandCellsDrawn[i].value = "0.0000"
                        /\ (~BandIsMissing(band) /\ Rec.bandPowers[1][band].isNumber)
                              => BandCellsDrawn[i].value =
                                     FourDecimals(Rec.bandPowers[1][band].n)

\* the table of a record without bandPowers: five cells, each "0.0000"
C11_Witness ==
    /\ result # <<>>
    /\ ~IsPresent(Rec.bandPowers)
    /\ pc = "done"
    /\ Len(BandCellsDrawn) = 5
    /\ \A i \in 1..5 : BandCellsDrawn[i].value = "0.0000"

\* the table of a record whose bandPowers has only delta and alpha
C11_PartialMapDrawn ==
    /\ result # <<>>
    /\ IsPresent(Rec.bandPowers)
    /\ DOMAIN Rec.bandPowers[1] = {"delta", "alpha"}
    /\ pc = "done"
    /\ BandCellsDrawn[1].value = "0.0005"
    /\ BandCellsDrawn[2].value = "0.0000"

\* the steps that run once the ratio section has run or has been skipped
AfterRatios == {"pagecount", "footer", "save", "done"}

RatioOps == OpsOf("ratios")

RatioInput == ObjectEntries(Rec.ratios)

\* The rows of the ratio section as drawn, in drawing order: after the two
\* operations of the section title each row is a label and a value.
RatioRowsDrawn ==
    [i \in 1..((Len(RatioOps) - 2) \div 2) |->
        [label |-> RatioOps[2 * i + 1].text, value |-> RatioOps[2 * i + 2].text,
         y |-> RatioOps[2 * i + 1].y]]

\* the cursor the interpretation section returned, read from the document:
\* the wrapped text starts at its y and takes one line height per line, and
\* the section adds its trailing gap
InterpBlocks == SelectSeq(ops, LAMBDA o : o.sec = "interp" /\ o.kind = "lines")

CursorAfterInterp ==
    InterpBlocks[1].y + Len(InterpBlocks[1].lines) * Tenths(55) + Mm(8)

\* C12: the ratio section is drawn exactly when ratios is present with at
\* least one key.  With ratios absent or empty nothing of the section is
\* drawn and the cursor stays where the interpretation section left it;
\* otherwise there is one row per key, a dictionary key carries its
\* dictionary label and a numeric value is written with four decimals
\* ({alpha_beta_ratio: 1.23} gives one row with the value "1.2300").
C12_RatioSectionIffNonEmpty ==
    (result # <<>> /\ pc \in AfterRatios) =>
        /\ (RatioOps # <<>>) <=> (IsPresent(Rec.ratios) /\ Len(RatioInput) >= 1)
        /\ RatioOps = <<>> => y = CursorAfterInterp
        /\ RatioOps # <<>> =>
              /\ Len(RatioOps) = 2 + 2 * Len(RatioInput)
              /\ RatioOps[1].kind = "line"
              /\ RatioOps[2].text = "Neurological Ratios"
              /\ y > CursorAfterInterp
              /\ \A i \in 1..Len(RatioInput) :
                    /\ RatioInput[i].key = "alpha_beta_ratio" =>
                          RatioRowsDrawn[i].label = "Alpha/Beta Ratio (Relaxation Index):"
                    /\ RatioInput[i].key = "fatigue_index" =>
                          RatioRowsDrawn[i].label = "Fatigue Index ((a+t)/b):"
                    /\ RatioInput[i].val.isNumber =>
                          RatioRowsDrawn[i].value = FourDecimals(RatioInput[i].val.n)

\* the example of the specification: ratios = {alpha_beta_ratio: 1.23}
C12_Witness ==
    /\ result # <<>>
    /\ pc = "done"
    /\ Rec.ratios = Some(<< [key |-> "alpha_beta_ratio", val |-> Num(12300)] >>)
    /\ Len(RatioRowsDrawn) = 1
    /\ RatioRowsDrawn[1].label = "Alpha/Beta Ratio (Relaxation Index):"
    /\ RatioRowsDrawn[1].value = "1.2300"

\* a finished render of a record with ratios = {}
C12_EmptyMapOmitted ==
    /\ result # <<>>
    /\ pc = "done"
    /\ Rec.ratios = Some(<<>>)
    /\ RatioOps = <<>>

\* C13: in the ratio section a row whose key is one of the three dictionary
\* keys carries the dictionary text, and a row with any other key carries
\* the raw key, each followed by ":"; no render raises in the section.
C13_RawKeyForUnknownRatio ==
    (result # <<>> /\ pc \in AfterRatios) =>
        \A i \in 1..Len(RatioRowsDrawn) :
            RatioRowsDrawn[i].label =
                (IF RatioInput[i].key \in RatioLabelKeys
                 THEN ratioLabels[RatioInput[i].key]
                 ELSE RatioInput[i].key) \o ":"

\* the confidence percentage as drawn: the last operation of the
\* primary-emotion section
PrimaryOps == OpsOf("primary")

ConfidenceTexts ==
    SelectSeq(PrimaryOps, LAMBDA o : o.kind = "text" /\ o.x = Mm(82)
                                     /\ o.text # "Confidence:")

\* the texts of finite numbers: whole percentages, percentages with one
\* decimal place, and values with four decimal places
WholePercents == {IntText(n) \o "%" : n \in -100..300}

OneDecimal(t) ==
    (IF t < 0 THEN "-" ELSE "") \o ToString(Abs(t) \div 10) \o "." \o Digit(Abs(t))

DecimalPercents == {OneDecimal(t) \o "%" : t \in -1000..1000}

FourDecimalNumerals == {FourDecimals(v) : v \in 0..20000}

\* C14: every number the document shows is the text of a finite number: the
\* confidence is a whole percentage, each score a percentage with one
\* decimal place, each numeric band and ratio value a value with four
\* decimal places; "NaN" and "Infinity" are never written.
C14_DisplayedNumbersFinite ==
    result # <<>> =>
        /\ \A i \in 1..Len(ConfidenceTexts) :
              /\ ConfidenceTexts[i].text \in WholePercents
              /\ ConfidenceTexts[i].text \notin {"NaN%", "Infinity%", "-Infinity%"}
        /\ \A i \in 1..Len(DrawnRows) :
              /\ DrawnRows[i].pctText \in DecimalPercents
              /\ DrawnRows[i].pctText \notin {"NaN%", "Infinity%", "-Infinity%"}
        /\ \A i \in 1..Len(BandCellsDrawn) :
              (BandIsMissing(bands[i]) \/ Rec.bandPowers[1][bands[i]].isNumber)
                  => BandCellsDrawn[i].value \in FourDecimalNumerals
        /\ \A i \in 1..Len(RatioRowsDrawn) :
              RatioInput[i].val.isNumber
                  => RatioRowsDrawn[i].value \in FourDecimalNumerals

\* a finished render of a record without confidence and without bandPowers:
\* the confidence reads "0%" and the band values "0.0000"
C14_Witness ==
    /\ result # <<>>
    /\ pc = "done"
    /\ ~IsPresent(Rec.confidence)
    /\ ~IsPresent(Rec.bandPowers)
    /\ Len(ConfidenceTexts) = 1
    /\ ConfidenceTexts[1].text = "0%"
    /\ BandCellsDrawn[3].value = "0.0000"

\* a finished render with the out-of-range scores -0.1 and 1.4, shown as
\* "-10.0%" and "100.0%"
C14_OutOfRangeScoresShown ==
    /\ result # <<>>
    /\ pc = "done"
    /\ \E i, j \in 1..Len(DrawnRows) :
          /\ DrawnRows[i].pctText = "100.0%"
          /\ ScoreOfKey(DrawnRows[i].key) = 1400
          /\ DrawnRows[j].pctText = "-10.0%"

\* a finished render with the out-of-range confidence 1.2, shown as "120%"
C14_OutOfRangeConfidenceShown ==
    /\ result # <<>>
    /\ pc = "done"
    /\ Rec.confidence = Some(1200)
    /\ ConfidenceTexts[1].text = "120%"

\* the texts a clock reading can be displayed as
ClockTexts == {NowLocaleString(t) : t \in Instants}

\* the timestamp of the header: its right-aligned text
HeaderDates ==
    SelectSeq(ops, LAMBDA o : o.sec = "header" /\ o.kind = "text"
                              /\ o.x = pageW - Mm(14))

\* the value of the "Analysis Date:" row: the text next to that label
AnalysisDates ==
    LET s == OpsOf("session")
    IN  [i \in {k \in 1..Len(s) : k > 1 /\ s[k - 1].text = "Analysis Date:"}
            |-> s[i].text]

\* C15: for a record without createdAt no text of the document is a reading
\* of the clock: the header timestamp and the "Analysis Date" row both show
\* the placeholder, and the clock is read for the file name only (the
\* header has taken no reading, now = 0).
C15_ClockNeverDisplayed ==
    (result # <<>> /\ ~IsPresent(Rec.createdAt)) =>
        /\ \A i \in 1..Len(ops) : ops[i].text \notin ClockTexts
        /\ \A i \in 1..Len(HeaderDates) : HeaderDates[i].text = "N/A"
        /\ \A i \in DOMAIN AnalysisDates : AnalysisDates[i] = "N/A"
        /\ now = 0

\* the document is laid out, then stamped, then saved: no operation of a
\* section follows an operation of the footer pass, no page is stamped
\* twice, and the document is saved at most once and only when the footer
\* pass has stamped the last page
PipelineSequential ==
    result # <<>> =>
        /\ \A i, j \in 1..Len(ops) :
              (i < j /\ ops[i].sec = "footer") => ops[j].sec = "footer"
        /\ Len(FooterStamps) <= 3 * numPages
        /\ saved <= 1
        /\ saved = 1 =>
              /\ pc = "done"
              /\ p = totalPages + 1
              /\ Len(FooterStamps) = 3 * numPages
              /\ FooterStamps[3 * numPages].text = PageLabel(numPages, numPages)
        /\ pc = "done" => saved = 1

\* C17: a render of a present record emits its document exactly once, after
\* the footer pass has stamped the last page: layout, footer pass and save
\* follow one another, the footer pass runs once, nothing of a section is
\* drawn once the footer pass has begun, and a render that has ended has
\* saved one document.
C17_EmittedOnceAfterFooter ==
    /\ PipelineSequential
    /\ (result # <<>> /\ Ended(pc)) => saved = 1

\* the cursor at which the interpretation text starts: 12 below the rule of
\* the section title
InterpRules == SelectSeq(ops, LAMBDA o : o.sec = "interp" /\ o.kind = "line")

InterpGiven == IsPresent(Rec.interpretation) /\ Rec.interpretation[1] # <<>>

\* C18: without an interpretation the fallback sentence is wrapped and
\* written; in every case the text is written as one block of at least one
\* line, and the cursor after it is the start of the block plus the number
\* of its lines times the line height 5.5 (followed by the section's gap
\* of 8).
C18_InterpretationAdvance ==
    (result # <<>> /\ pc \in {"ratios"} \cup AfterRatios) =>
        /\ Len(InterpBlocks) = 1
        /\ Len(InterpRules) = 1
        /\ Len(InterpBlocks[1].lines) >= 1
        /\ InterpBlocks[1].y = InterpRules[1].y + Mm(12)
        /\ ~InterpGiven => InterpBlocks[1].lines = << FallbackText >>
        /\ InterpGiven => InterpBlocks[1].lines[1][1] = Rec.interpretation[1][1]
        /\ \A i \in 1..Len(InterpBlocks[1].lines) :
              InterpBlocks[1].lines[i] # <<>>
        /\ pc = "ratios" =>
              y = InterpBlocks[1].y
                    + Len(InterpBlocks[1].lines) * Tenths(55) + Mm(8)

\* the fallback sentence written for a record without interpretation, the
\* cursor one line and the gap below it
C18_Witness ==
    /\ result # <<>>
    /\ ~IsPresent(Rec.interpretation)
    /\ pc = "ratios"
    /\ InterpBlocks[1].lines = << FallbackText >>
    /\ y = InterpBlocks[1].y + Tenths(55) + Mm(8)

\* an interpretation wrapped into more than one line
C18_SeveralLines ==
    /\ result # <<>>
    /\ pc = "ratios"
    /\ Len(InterpBlocks[1].lines) = 2
    /\ y = InterpBlocks[1].y + Mm(11) + Mm(8)

ScoreRules == SelectSeq(ops, LAMBDA o : o.sec = "scores" /\ o.kind = "line")

\* C19: without emotionScores the probability section draws its title and
\* no bar row, and the cursor after the section is the cursor after the
\* title (12 below its rule) plus the trailing gap of 6.
C19_AbsentScoresTitleOnly ==
    (result # <<>> /\ ~IsPresent(Rec.emotionScores) /\ pc \in AfterScores) =>
        /\ Len(OpsOf("scores")) = 2
        /\ OpsOf("scores")[1].kind = "line"
        /\ OpsOf("scores")[2].text = "Emotion Probability Scores"
        /\ DrawnRows = <<>>
        /\ pc = "interp" => y = ScoreRules[1].y + Mm(12) + Mm(6)

C19_Witness ==
    /\ result # <<>>
    /\ ~IsPresent(Rec.emotionScores)
    /\ pc = "interp"
    /\ Len(OpsOf("scores")) = 2
    /\ y = ScoreRules[1].y + Mm(18)

\* ------------------------------------------------------- several renders
\* the calls that have ended, each with its argument, the reading of the
\* clock its header took, its document and where it ended
EndedRenders == finished \cup (IF Ended(pc) THEN {Kept} ELSE {})

\* C16: two renders of the same record issue the same sequence of drawing
\* operations, with the same coordinates, colours and texts, and end the
\* same way; only the file name may differ.
C16_SameRecordSameDocument ==
    \A a, b \in EndedRenders :
        a.result = b.result => (a.ops = b.ops /\ a.pc = b.pc)

\* a text that is a reading of the clock is replaced by a fixed mark
WithoutClockTexts(seq) ==
    [i \in 1..Len(seq) |->
        IF seq[i].text \in ClockTexts THEN [seq[i] EXCEPT !.text = "(clock)"]
        ELSE seq[i]]

\* two renders of the same record issue the same operations except for the
\* texts that are readings of the clock
SameDocumentUpToClock ==
    \A a, b \in EndedRenders :
        a.result = b.result =>
            (WithoutClockTexts(a.ops) = WithoutClockTexts(b.ops) /\ a.pc = b.pc)

SessionOps == OpsOf("session")

\* the steps that run once the session-info section has returned
AfterSession == {"primary", "bands"} \cup AfterBands

\* the value written next to a label of the session-info section ("" when
\* the label has not been written)
SessionValue(label) ==
    IF \E k \in 1..(Len(SessionOps) - 1) : SessionOps[k].text = label
    THEN SessionOps[(CHOOSE k \in 1..(Len(SessionOps) - 1) :
                        SessionOps[k].text = label) + 1].text
    ELSE ""

C21_DashShown ==
    /\ result # <<>>
    /\ pc = "done"
    /\ ~IsPresent(Rec.processingTime)
    /\ ~IsPresent(Rec.datasetName)
    /\ SessionValue("Processing Time:") = EmDash \o " ms"
    /\ SessionValue("Dataset Name:") = "Unknown"

\* ------------------------------------------------------------- the cursor
\* the operations of the layout pass: everything but the footer stamps
LayoutOps == SelectSeq(ops, LAMBDA o : o.sec # "footer")

\* the steps at which the header has returned its cursor
AfterHeader == {"session"} \cup AfterSession

CursorBounded ==
    result # <<>> =>
        /\ y >= 0
        /\ pc \in AfterHeader => y >= HeaderEndY
        /\ \A i \in 1..Len(ops) :
              ops[i].sec \notin {"header", "footer"} => ops[i].y >= HeaderEndY

\* C22: the cursor is 58 when the header returns and never decreases
\* afterwards: every step of a render leaves it where it was or moves it
\* down, it is never negative, and nothing of a section is written above
\* the position where the header ended.
C22_CursorNeverDecreases ==
    /\ []CursorBounded
    /\ [][y' >= y /\ (pc = "header" /\ pc' = "session" => y' = HeaderEndY)]_vars

\* a finished render whose cursor has moved down from 58 through every
\* section, the ratios included
C22_Witness ==
    /\ result # <<>>
    /\ pc = "done"
    /\ "ratios" \in SectionsDrawn
    /\ y > HeaderEndY + Mm(100)

\* ------------------------------------------------------------- the page
FooterTop == pH - Mm(12)

\* C23: every operation of the layout pass is placed at a Y position no
\* greater than pageHeight - 12, so that nothing of a section lies under
\* the footer strip or beyond the bottom of the page.
C23_ContentAboveFooter ==
    result # <<>> =>
        \A i \in 1..Len(LayoutOps) : LayoutOps[i].y <= FooterTop

\* C24: the layout pass never performs a page transition: the document has
\* the one page it was created with, every operation is drawn on page 1,
\* and the page count the footer pass reads is 1, whatever the cursor has
\* become.
C24_LayoutNeverAddsPage ==
    result # <<>> =>
        /\ numPages = (IF docCreated THEN 1 ELSE 0)
        /\ curPage = numPages
        /\ \A i \in 1..Len(ops) : ops[i].page = 1
        /\ pc \in {"footer", "save", "done"} => totalPages = 1

\* a finished render whose cursor has passed the page height, with one page
\* stamped "Page 1 of 1"
C24_Witness ==
    /\ result # <<>>
    /\ pc = "done"
    /\ y > pH
    /\ numPages = 1
    /\ totalPages = 1
    /\ FooterLabels = << "Page 1 of 1" >>

\* ------------------------------------------------------- fixed advances
\* the cursor the band-power table was given: the Y of its chips
BandChips == SelectSeq(ops, LAMBDA o : o.sec = "bands" /\ o.kind = "rect")

\* C25: the header returns the cursor 58 whatever the emotion and createdAt
\* are, and the band-power table returns the cursor it was given plus 22
\* whatever the band values are (the section then adds its gap of 4).
C25_FixedAdvances ==
    result # <<>> =>
        /\ pc = "session" => y = Mm(58)
        /\ pc = "scores" =>
              /\ Len(BandChips) = 5
              /\ \A i \in 1..5 : BandChips[i].y = BandChips[1].y
              /\ y = BandChips[1].y + Mm(22) + Mm(4)

\* the table of a record whose beta value is not a number has returned
\* its cursor plus 22
C25_Witness ==
    /\ result # <<>>
    /\ pc = "scores"
    /\ IsPresent(Rec.bandPowers)
    /\ "beta" \in DOMAIN Rec.bandPowers[1]
    /\ ~Rec.bandPowers[1]["beta"].isNumber
    /\ y = BandChips[1].y + Mm(26)

\* the header of a record with an unrecognised emotion and no createdAt
\* has returned 58
C25_HeaderFixed ==
    /\ result # <<>>
    /\ pc = "session"
    /\ Rec.emotion = Some("Excited")
    /\ ~IsPresent(Rec.createdAt)
    /\ y = Mm(58)

\* the Y positions of the five rows of the session-info section
SessionRowYs == [i \in 1..((Len(SessionOps) - 2) \div 2) |-> SessionOps[2 * i + 1].y]

\* C26: a key/value block of k pairs advances the cursor by 7k (the five
\* session rows, one ratio row per key) and a probability-bar list of n
\* entries by 9n, whatever the labels, values and scores are; the rows of a
\* block lie 7, the bars 9 apart, so that no two rows share a Y position.
C26_RowAdvances ==
    result # <<>> =>
        /\ \A i \in 1..Len(SessionRowYs) :
              /\ SessionRowYs[i] = SessionRowYs[1] + (i - 1) * Mm(7)
              /\ SessionOps[2 * i + 2].y = SessionRowYs[i]
        /\ pc = "primary" =>
              /\ Len(SessionRowYs) = 5
              /\ y = SessionRowYs[1] + 5 * Mm(7) + Mm(4)
        /\ \A i \in 1..Len(DrawnRows) :
              DrawnRows[i].y = DrawnRows[1].y + (i - 1) * Mm(9)
        /\ pc = "interp" =>
              /\ Len(DrawnRows) = Len(InputEntries)
              /\ y = ScoreRules[1].y + Mm(12) + Len(InputEntries) * Mm(9) + Mm(6)
        /\ \A i \in 1..Len(RatioRowsDrawn) :
              RatioRowsDrawn[i].y = RatioRowsDrawn[1].y + (i - 1) * Mm(7)
        /\ (pc = "pagecount" /\ RatioOps # <<>>) =>
              /\ Len(RatioRowsDrawn) = Len(RatioInput)
              /\ y = RatioRowsDrawn[1].y + Len(RatioInput) * Mm(7) + Mm(4)

\* the full report after its last section: five session rows, five bars
\* and three ratio rows
C26_Witness ==
    /\ result = << FullReport >>
    /\ pc = "pagecount"
    /\ Len(SessionRowYs) = 5
    /\ Len(DrawnRows) = 5
    /\ DrawnRows[5].y = DrawnRows[1].y + Mm(36)
    /\ Len(RatioRowsDrawn) = 3
    /\ y = RatioRowsDrawn[1].y + Mm(21) + Mm(4)

\* --------------------------------------------------------- section breaks
TitledSections == {"session", "primary", "bands", "scores", "interp", "ratios"}

\* the operations a step has added to the document
Added == [i \in 1..(Len(ops') - Len(ops)) |-> ops'[Len(ops) + i]]

\* a step that draws a titled section opens it with the section break: the
\* rule at the cursor the step was given, the title 5 below it, everything
\* else of the section at least 12 below it, and, when the section
\* returns, a cursor at least 12 below it
OpensWithSectionBreak ==
    (Len(ops') > Len(ops) /\ ops'[Len(ops) + 1].sec \in TitledSections) =>
        /\ Len(Added) >= 2
        /\ Added[1].kind = "line"
        /\ Added[1].y = y
        /\ Added[1].x = Mm(14)
        /\ Added[1].w = pageW - Mm(28)
        /\ Added[2].kind = "text"
        /\ Added[2].y = y + Mm(5)
        /\ Added[2].color = Added[1].color
        /\ \A i \in 3..Len(Added) :
              /\ Added[i].sec = Added[1].sec
              /\ Added[i].kind # "line"
              /\ Added[i].y >= y + Mm(12)
        /\ pc' # "threw" => y' >= y + Mm(12)

\* C27: every major section is opened by the same section break: a rule at
\* exactly the incoming cursor Y, the title at Y + 5, a cursor of Y + 12
\* for the content; nothing of a section is written at or above its title.
C27_SectionBreakUniform ==
    /\ [][OpensWithSectionBreak]_vars
    /\ [](result # <<>> =>
            \A sec \in SectionsDrawn \cap TitledSections :
                LET s == OpsOf(sec)
                IN  /\ s[1].kind = "line"
                    /\ s[2].kind = "text"
                    /\ s[2].y = s[1].y + Mm(5)
                    /\ \A i \in 3..Len(s) : s[i].y >= s[1].y + Mm(12))

\* a finished render with all six titled sections
C27_Witness ==
    /\ result # <<>>
    /\ pc = "done"
    /\ TitledSections \subseteq SectionsDrawn
    /\ \A sec \in TitledSections : OpsOf(sec)[2].y = OpsOf(sec)[1].y + Mm(5)

\* ------------------------------------------------------------ text wrapping
\* the text the interpretation section wraps
InterpText == IF InterpGiven THEN Rec.interpretation[1] ELSE FallbackText

\* the lines lo..hi of a block joined into one sequence of words (the range
\* is halved to keep the evaluation of a long block shallow)
RECURSIVE JoinLines(_, _, _)
JoinLines(lines, lo, hi) ==
    IF lo > hi THEN <<>>
    ELSE IF lo = hi THEN lines[lo]
    ELSE LET mid == (lo + hi) \div 2
             left == JoinLines(lines, lo, mid)
         IN  IF Len(left) >= 0 THEN left \o JoinLines(lines, mid + 1, hi)
             ELSE <<>>

\* the least j such that the words j+1..i of the text fit on one line,
\* searched downwards from j (a single word is always put on a line)
RECURSIVE LineStart(_, _, _, _)
LineStart(text, i, j, width) ==
    IF j = 0 THEN 0
    ELSE IF LineWidth(SubSeq(text, j, i)) <= width
         THEN LineStart(text, i, j - 1, width)
         ELSE j

\* best[i]: the least number of lines the first i words can be put on, each
\* line no wider than width; the table is extended word by word
LeastLinesStep(best, text, i, width) ==
    LET from == LineStart(text, i, i - 1, width)
        before(j) == IF j = 0 THEN 0 ELSE best[j]
        least == CHOOSE m \in {before(j) : j \in from..(i - 1)} :
                    \A j \in from..(i - 1) : m <= before(j)
    IN  Append(best, least + 1)

RECURSIVE LeastLinesRange(_, _, _, _, _)
LeastLinesRange(best, text, lo, hi, width) ==
    IF lo > hi THEN best
    ELSE IF lo = hi THEN LeastLinesStep(best, text, lo, width)
    ELSE LET mid == (lo + hi) \div 2
             left == LeastLinesRange(best, text, lo, mid, width)
         IN  IF Len(left) >= 0
             THEN LeastLinesRange(left, text, mid + 1, hi, width)
             ELSE best

\* the least number of lines for the whole text (one line for no words)
LeastLines(text, width) ==
    IF text = <<>> THEN 1
    ELSE LeastLinesRange(<<>>, text, 1, Len(text), width)[Len(text)]

C28_LongTextWrapped ==
    /\ result # <<>>
    /\ pc = "done"
    /\ Rec.interpretation = Some(LongText)
    /\ Len(InterpBlocks[1].lines) = LongTextWords

\* ------------------------------------------------------------ the input record
\* the keys of the drawn score rows, in the order drawn
DrawnKeyOrder == [i \in 1..Len(DrawnRows) |-> DrawnRows[i].key]

\* the keys of the record's emotionScores, in the record's order
InputKeyOrder == [i \in 1..Len(InputEntries) |-> InputEntries[i].key]

\* C29: no step of a render changes the record it was given: every field,
\* and the key order of emotionScores and of ratios, is after the step what
\* it was before it (the sorted rows are a copy of the entries).
C29_RecordNeverModified == [][result' = result]_vars

\* a finished render that drew the score rows in another order than the
\* record's keys, the record still holding its keys in their own order
C29_Witness ==
    /\ result # <<>>
    /\ pc = "done"
    /\ saved = 1
    /\ Len(DrawnRows) = 3
    /\ Len(InputEntries) = 3
    /\ DrawnKeyOrder # InputKeyOrder
    /\ result \in {<<r>> : r \in Records}

\* ------------------------------------------------------------ text and bar
\* C30: in every drawn score row the percentage text and the filled bar
\* agree: the text shows a percentage p with 0 <= p <= 100 and the filled
\* width is (p / 100) x trackWidth, for every score, those below 0 and those
\* above 1 included (p in tenths of a percent).
C30_TextAndBarAgree ==
    result # <<>> =>
        \A i \in 1..Len(DrawnRows) :
            \E pct \in 0..1000 :
                /\ DrawnRows[i].pctText = ToFixed1(pct) \o "%"
                /\ DrawnRows[i].fill * 1000 = pct * DrawnRows[i].track

\* the rows of scores of 0 and above do agree, those above 1 at 100.0%
C30_AgreeFromZeroUp ==
    result # <<>> =>
        \A i \in 1..Len(DrawnRows) :
            ScoreOfKey(DrawnRows[i].key) >= 0 =>
                /\ DrawnRows[i].pctText =
                       ToFixed1(Clamp01(ScoreOfKey(DrawnRows[i].key))) \o "%"
                /\ DrawnRows[i].fill * 1000 =
                       Clamp01(ScoreOfKey(DrawnRows[i].key)) * DrawnRows[i].track

\* a score of -0.1 drawn as "-10.0%" next to a track with no filled bar
C30_NegativePercentShown ==
    /\ result # <<>>
    /\ pc \in AfterScores
    /\ \E i \in 1..Len(DrawnRows) :
          /\ ScoreOfKey(DrawnRows[i].key) = 0 - 100
          /\ DrawnRows[i].pctText = "-10.0%"
          /\ DrawnRows[i].fill = 0

====
